---------------------------- MODULE Spec2Model ----------------------------
(***************************************************************************)
(* A model of src/nds.py: the filename-tree (FNT) codec (Folder.idOf,      *)
(* Folder.subfolder, load, save) and the ROM container: its two            *)
(* constructors (NintendoDSRom._initAsNew, NintendoDSRom._initFromData)    *)
(* and getFileByName / setFileByName.                                      *)
(*                                                                         *)
(* Python values are modelled as follows.  A str or bytes value is a       *)
(* sequence of code points / byte values (naturals).  The outcome of a     *)
(* call is a record: Ok(v) for a returned value, NoneVal for None and      *)
(* Raise(e) for an exception of class e that leaves the call.              *)
(***************************************************************************)
EXTENDS Integers, Sequences, FiniteSets, TLC

VARIABLES
    tree,          \* the Folder the tree operations act on
    op,            \* the last operation applied to the tree or to the ROM
    path,          \* the path argument of the last lookup
    result,        \* the outcome of the last tree operation
    input,         \* the bytes handed to NintendoDSRom(data)
    data,          \* _initFromData: the working bytearray
    pc,            \* _initFromData / ROM object: position in the code
    headerOffset,  \* self.headerOffset, the header read cursor
    fieldIdx,      \* number of header reads performed so far
    hdr,           \* the header fields and header locals read so far
    scan,          \* the post-ARM9 scan: [off, out, iters]
    rom,           \* the attributes of the ROM object set after the header
    last,          \* the outcome of the last ROM operation
    fntBuf,        \* the buffer load is applied to
    layout         \* the folder table fntBuf was laid out from

vars == <<tree, op, path, result, input, data, pc, headerOffset, fieldIdx,
          hdr, scan, rom, last, fntBuf, layout>>

loadVars == <<fntBuf, layout>>
treeVars == <<tree, op, path, result, loadVars>>
romVars == <<input, data, pc, headerOffset, fieldIdx, hdr, scan, rom, last>>

(***************************************************************************)
(* Outcomes of calls.                                                      *)
(***************************************************************************)
Ok(v) == [kind |-> "ok", val |-> v]
NoneVal == [kind |-> "None"]
Raise(e) == [kind |-> "raise", exc |-> e]

IsOk(r) == r.kind = "ok"
IsNone(r) == r.kind = "None"
IsRaise(r) == r.kind = "raise"

(***************************************************************************)
(* Python sequence primitives.                                             *)
(***************************************************************************)
\* s[a:b] for 0 <= a, 0 <= b: a slice is clipped to the sequence, never an error.
Slice(s, a, b) ==
    LET hi == IF b < Len(s) THEN b ELSE Len(s)
    IN  IF a >= hi THEN <<>> ELSE SubSeq(s, a + 1, hi)

\* x in s, for a list s
Contains(s, x) == \E i \in 1..Len(s) : s[i] = x

\* s.index(x) for a list s holding x: the least index (0-based)
IndexOf(s, x) == (CHOOSE i \in 1..Len(s) : s[i] = x /\ \A j \in 1..(i-1) : s[j] # x) - 1

(***************************************************************************)
(* Folder (src/nds.py:36-50): folders is a list of (name, Folder) pairs,   *)
(* files a list of names, firstID the ID of the first file.                *)
(***************************************************************************)
Folder(folders, files, firstID) ==
    [folders |-> folders, files |-> files, firstID |-> firstID]

EmptyFolder == Folder(<<>>, <<>>, 0)

Slash == 47

\* path.split('/'): the components between separators; never an empty list
RECURSIVE split(_)
split(s) ==
    IF ~Contains(s, Slash) THEN <<s>>
    ELSE LET i == IndexOf(s, Slash) + 1
         IN  <<SubSeq(s, 1, i - 1)>> \o split(SubSeq(s, i + 1, Len(s)))

\* while not pathList[-1]: pathList = pathList[:-1]
\* Indexing the empty list raises IndexError.
RECURSIVE stripTrailing(_)
stripTrailing(pathList) ==
    IF pathList = <<>> THEN Raise("IndexError")
    ELSE IF pathList[Len(pathList)] = <<>>
         THEN stripTrailing(SubSeq(pathList, 1, Len(pathList) - 1))
         ELSE Ok(pathList)

\* while not pathList[0]: pathList = pathList[1:]
RECURSIVE stripLeading(_)
stripLeading(pathList) ==
    IF pathList = <<>> THEN Raise("IndexError")
    ELSE IF pathList[1] = <<>>
         THEN stripLeading(SubSeq(pathList, 2, Len(pathList)))
         ELSE Ok(pathList)

\* The three lines that turn the path argument into pathList
\* (idOf: 120-122, subfolder: 150-152).
pathListOf(p) ==
    LET t == stripTrailing(split(p))
    IN  IF IsRaise(t) THEN t ELSE stripLeading(t.val)

\* The first entry of searchFolder.folders named pathPart (0 when there is none):
\* the for loop returns from its first match.
FirstFolderNamed(searchFolder, pathPart) ==
    IF \E i \in 1..Len(searchFolder.folders) : searchFolder.folders[i][1] = pathPart
    THEN CHOOSE i \in 1..Len(searchFolder.folders) :
            /\ searchFolder.folders[i][1] = pathPart
            /\ \A j \in 1..(i-1) : searchFolder.folders[j][1] # pathPart
    ELSE 0

\* A faulty variant of the file lookup: the position in the list, without firstID.
idOfFileMutant(searchFolder, pathPart) ==
    IF Contains(searchFolder.files, pathPart)
    THEN Ok(IndexOf(searchFolder.files, pathPart))
    ELSE NoneVal

\* idOf.findInFolder, the len(requestedPath) == 1 branch
idOfFile(searchFolder, pathPart) ==
    IF Contains(searchFolder.files, pathPart)
    THEN Ok(searchFolder.firstID + IndexOf(searchFolder.files, pathPart))
    ELSE NoneVal

\* idOf.findInFolder
RECURSIVE idOfFind(_, _)
idOfFind(requestedPath, searchFolder) ==
    LET pathPart == requestedPath[1]
    IN  IF Len(requestedPath) = 1
        THEN idOfFile(searchFolder, pathPart)
        ELSE LET i == FirstFolderNamed(searchFolder, pathPart)
             IN  IF i = 0 THEN NoneVal
                 ELSE idOfFind(SubSeq(requestedPath, 2, Len(requestedPath)),
                               searchFolder.folders[i][2])

\* Folder.idOf
idOf(self, p) ==
    LET pl == pathListOf(p)
    IN  IF IsRaise(pl) THEN pl ELSE idOfFind(pl.val, self)

\* subfolder.findInFolder
RECURSIVE subfolderFind(_, _)
subfolderFind(requestedPath, searchFolder) ==
    LET pathPart == requestedPath[1]
        i == FirstFolderNamed(searchFolder, pathPart)
    IN  IF i = 0 THEN NoneVal
        ELSE IF Len(requestedPath) = 1
             THEN Ok(searchFolder.folders[i][2])
             ELSE subfolderFind(SubSeq(requestedPath, 2, Len(requestedPath)),
                                searchFolder.folders[i][2])

\* Folder.subfolder
subfolder(self, p) ==
    LET pl == pathListOf(p)
    IN  IF IsRaise(pl) THEN pl ELSE subfolderFind(pl.val, self)

(***************************************************************************)
(* struct: little-endian fixed-width integers.                             *)
(***************************************************************************)
U8Range == 256
U16Range == 65536

\* struct.pack('<H', v), struct.pack('<I', v) for v in range
LE16(v) == <<v % U8Range, (v \div U8Range) % U8Range>>
LE32(v) == LE16(v % U16Range) \o LE16(v \div U16Range)

\* struct.unpack_from(fmt, buf, off) needs off + size <= len(buf), else struct.error
CanUnpack(buf, off, size) == off + size <= Len(buf)
U8At(buf, off) == buf[off + 1]
U16At(buf, off) == buf[off + 1] + U8Range * buf[off + 2]
U32At(buf, off) == U16At(buf, off) + U16Range * U16At(buf, off + 2)

\* s.encode('latin-1') / b.decode('latin-1'): code point c <-> byte c, defined
\* for code points below 256 only.
encodeLatin1(s) ==
    IF \E i \in 1..Len(s) : s[i] >= U8Range THEN Raise("UnicodeEncodeError") ELSE Ok(s)
decodeLatin1(b) == b

(***************************************************************************)
(* load (src/nds.py:226-268).                                              *)
(***************************************************************************)
ROOT_ID == 61440
SlotCount == 4096
NameLenRange == 128

\* The interpreter's recursion limit, as a bound of the model: a call nested
\* deeper than this raises RecursionError.
MaxLoadDepth == 4

\* folderObj.folders.append / folderObj.files.append
AppendFolder(f, name, sub) == [f EXCEPT !.folders = Append(@, <<name, sub>>)]
AppendFile(f, name) == [f EXCEPT !.files = Append(@, name)]

RECURSIVE loadFolder(_, _, _)
RECURSIVE loadEntries(_, _, _, _)

\* The while True loop of loadFolder, from offset off, with folderObj so far
loadEntries(fnt, off, folderObj, depth) ==
    IF ~CanUnpack(fnt, off, 1) THEN Raise("struct.error")
    ELSE LET control == U8At(fnt, off)
             len_ == control % NameLenRange
             isFolder == control >= NameLenRange
             name == decodeLatin1(Slice(fnt, off + 1, off + 1 + len_))
             off2 == off + 1 + len_
         IN  IF control = 0 THEN Ok(folderObj)
             ELSE IF isFolder
                  THEN IF ~CanUnpack(fnt, off2, 2) THEN Raise("struct.error")
                       ELSE LET sub == loadFolder(fnt, U16At(fnt, off2), depth + 1)
                            IN  IF IsRaise(sub) THEN sub
                                ELSE loadEntries(fnt, off2 + 2,
                                         AppendFolder(folderObj, name, sub.val), depth)
                  ELSE loadEntries(fnt, off2, AppendFile(folderObj, name), depth)

\* A faulty variant of loadFolder: the slot is taken from the lowest bit of
\* the ID only
loadFolderMutant(fnt, folderId, depth) ==
    LET off == 8 * (folderId % 2)
    IN  IF depth > MaxLoadDepth THEN Raise("RecursionError")
        ELSE IF ~CanUnpack(fnt, off, 6) THEN Raise("struct.error")
        ELSE loadEntries(fnt, U32At(fnt, off),
                         Folder(<<>>, <<>>, U16At(fnt, off + 4)), depth)

\* A faulty variant of loadFolder: a folder nested deeper than the limit is
\* returned empty
loadFolderCapped(fnt, folderId, depth) ==
    LET off == 8 * (folderId % SlotCount)
    IN  IF depth > MaxLoadDepth THEN Ok(EmptyFolder)
        ELSE IF ~CanUnpack(fnt, off, 6) THEN Raise("struct.error")
        ELSE loadEntries(fnt, U32At(fnt, off),
                         Folder(<<>>, <<>>, U16At(fnt, off + 4)), depth)

\* load.loadFolder
loadFolder(fnt, folderId, depth) ==
    LET off == 8 * (folderId % SlotCount)
    IN  IF depth > MaxLoadDepth THEN Raise("RecursionError")
        ELSE IF ~CanUnpack(fnt, off, 6) THEN Raise("struct.error")
        ELSE loadEntries(fnt, U32At(fnt, off),
                         Folder(<<>>, <<>>, U16At(fnt, off + 4)), depth)

load(fnt) == loadFolder(fnt, ROOT_ID, 1)

(***************************************************************************)
(* save (src/nds.py:271-365).                                              *)
(***************************************************************************)
MAX_NAME_LEN == 127

\* The binding of a local name of a Python frame
Bound(v) == [bound |-> TRUE, v |-> v]
Unbound == [bound |-> FALSE]

\* What the name nextFolderID denotes when parseFolder starts to run, given the
\* value of save's variable of that name.  parseFolder assigns the name (line
\* 299) and declares it neither nonlocal nor global, so it is a local of
\* parseFolder, not yet bound when line 298 reads it.
LocalNextFolderID(enclosing) == Unbound

\* for file in d.files: ... (lines 303-311), from the i-th file on
RECURSIVE saveFiles(_, _, _)
saveFiles(files, i, entriesTable) ==
    IF i > Len(files) THEN Ok(entriesTable)
    ELSE IF Len(files[i]) > MAX_NAME_LEN THEN Raise("ValueError")
    ELSE LET e == encodeLatin1(files[i])
         IN  IF IsRaise(e) THEN e
             ELSE saveFiles(files, i + 1, entriesTable \o <<Len(files[i])>> \o e.val)

RECURSIVE parseFolder(_, _, _, _)
RECURSIVE saveFolders(_, _, _, _, _, _)

\* for folderName, folder in d.folders: ... (lines 313-329), from the i-th on.
\* Returns the entries table with the counter and folderEntries as left by
\* the nested parseFolder calls.
saveFolders(folders, i, folderID, nextFolderID, folderEntries, entriesTable) ==
    IF i > Len(folders)
    THEN Ok([entriesTable |-> entriesTable, nextFolderID |-> nextFolderID,
             folderEntries |-> folderEntries])
    ELSE LET folderName == folders[i][1]
             sub == parseFolder(folders[i][2], folderID, nextFolderID, folderEntries)
         IN  IF IsRaise(sub) THEN sub
             ELSE IF Len(folderName) > MAX_NAME_LEN THEN Raise("ValueError")
             ELSE LET e == encodeLatin1(folderName)
                  IN  IF IsRaise(e) THEN e
                      ELSE saveFolders(folders, i + 1, folderID,
                               sub.val.nextFolderID, sub.val.folderEntries,
                               entriesTable \o <<Len(folderName) + NameLenRange>>
                                   \o e.val \o LE16(sub.val.folderID))

\* save.parseFolder.  nextFolderID and folderEntries are save's variables of
\* these names; the outcome carries their values after the call.
parseFolder(d, parentID, nextFolderID, folderEntries) ==
    LET local == LocalNextFolderID(nextFolderID)
    IN  IF ~local.bound THEN Raise("UnboundLocalError")
        ELSE LET folderID == local.v
                 ft == saveFiles(d.files, 1, <<>>)
             IN  IF IsRaise(ft) THEN ft
                 ELSE LET sf == saveFolders(d.folders, 1, folderID, local.v + 1,
                                            folderEntries, ft.val)
                      IN  IF IsRaise(sf) THEN sf
                          ELSE Ok([folderID |-> folderID,
                                   nextFolderID |-> sf.val.nextFolderID,
                                   folderEntries |->
                                       (folderID :> <<d.firstID, parentID,
                                                      sf.val.entriesTable \o <<0>>>>)
                                       @@ sf.val.folderEntries])

\* save.countFoldersIn
RECURSIVE countFoldersIn(_)
RECURSIVE countFoldersFrom(_, _)
countFoldersFrom(folders, i) ==
    IF i > Len(folders) THEN 0
    ELSE countFoldersIn(folders[i][2]) + countFoldersFrom(folders, i + 1)
countFoldersIn(folder) == countFoldersFrom(folder.folders, 1) + 1

\* bytearray(n)
Zeros(n) == [i \in 1..n |-> 0]

\* struct.pack_into(fmt, buf, off, ...) of the bytes b
PackInto(buf, off, b) ==
    [i \in 1..Len(buf) |-> IF i > off /\ i <= off + Len(b) THEN b[i - off] ELSE buf[i]]

\* The loop over sorted(folderEntries.keys()) (lines 354-363), for the IDs not
\* yet written
RECURSIVE saveTable(_, _, _)
saveTable(folderEntries, ids, fnt) ==
    IF ids = {} THEN Ok(fnt)
    ELSE LET currentFolderID == CHOOSE x \in ids : \A y \in ids : x <= y
             e == folderEntries[currentFolderID]
             offsetInFolderTable == 8 * (currentFolderID % SlotCount)
         IN  IF e[1] >= U16Range \/ e[2] >= U16Range
                \/ ~CanUnpack(fnt, offsetInFolderTable, 8)
             THEN Raise("struct.error")
             ELSE saveTable(folderEntries, ids \ {currentFolderID},
                      PackInto(fnt, offsetInFolderTable,
                               LE32(Len(fnt)) \o LE16(e[1]) \o LE16(e[2])) \o e[3])

\* Line 347: rootId = parseFolder(root, rootParentId)
saveRoot(root) == parseFolder(root, countFoldersIn(root), ROOT_ID, <<>>)

\* save
save(root) ==
    LET r == saveRoot(root)
    IN  IF IsRaise(r) THEN r
        ELSE IF r.val.folderID # ROOT_ID THEN Raise("AssertionError")
        ELSE saveTable(r.val.folderEntries, DOMAIN r.val.folderEntries,
                       Zeros(8 * Cardinality(DOMAIN r.val.folderEntries)))

\* load(save(root)): an exception of save leaves the whole expression
loadSave(root) ==
    LET s == save(root)
    IN  IF IsRaise(s) THEN s ELSE load(s.val)

(***************************************************************************)
(* The trees and paths the tree operations are applied to.                 *)
(***************************************************************************)
MaxComponents == 5
MaxFirstID == 1

A == <<97>>
B == <<98>>
Names == {A, B}

\* '/'.join(comps)
RECURSIVE Join(_)
Join(comps) ==
    IF Len(comps) = 1 THEN comps[1]
    ELSE comps[1] \o <<Slash>> \o Join(Tail(comps))

\* Every path of 1..MaxComponents components, each a name or empty: the empty
\* path, runs of separators, leading, trailing and doubled separators included.
Paths ==
    {Join(c) : c \in UNION {[1..k -> Names \cup {<<>>}] : k \in 1..MaxComponents}}

LongName(n) == [i \in 1..n |-> 97]

Leaves ==
    {Folder(<<>>, f, id) : f \in {<<>>, <<A>>, <<B, A>>, <<A, A>>}, id \in 0..MaxFirstID}

Mids ==
    {Folder(<<>>, <<>>, 2)}
    \cup {Folder(fs, <<A>>, 2) :
             fs \in {<<>>} \cup {<< <<n, l>> >> : n \in Names, l \in Leaves}}

Decoy == Folder(<<>>, <<A, B>>, 7)

ShortTrees ==
    {Folder(fs, f, 0) :
        fs \in {<<>>} \cup {<< <<n, m>> >> : n \in Names, m \in Mids}
                      \cup {<< <<n, Decoy>>, <<A, m>> >> : n \in Names, m \in Mids},
        f \in {<<>>, <<B>>}}

\* Trees with a name at and beyond the 127-character limit
LongTrees ==
    {Folder(<<>>, <<LongName(n)>>, 0) : n \in {MAX_NAME_LEN, MAX_NAME_LEN + 1}}
    \cup {Folder(<< <<LongName(MAX_NAME_LEN + 1), EmptyFolder>> >>, <<A>>, 0)}

Trees == ShortTrees \cup LongTrees

(***************************************************************************)
(* The tree operations as actions.  The operations are pure: a behaviour   *)
(* applies one operation to one tree.                                      *)
(***************************************************************************)
InitTree ==
    /\ tree \in Trees
    /\ op = "none"
    /\ path = <<>>
    /\ result = NoneVal
    /\ fntBuf = <<>>
    /\ layout = <<>>
    /\ input = <<>>
    /\ data = <<>>
    /\ pc = "tree"
    /\ headerOffset = 0
    /\ fieldIdx = 0
    /\ hdr = <<>>
    /\ scan = <<>>
    /\ rom = <<>>
    /\ last = NoneVal

\* tree.idOf(p)
IdOf(p) ==
    /\ pc = "tree"
    /\ op = "none"
    /\ op' = "idOf"
    /\ path' = p
    /\ result' = idOf(tree, p)
    /\ UNCHANGED <<tree, loadVars, romVars>>

\* tree.subfolder(p)
Subfolder(p) ==
    /\ pc = "tree"
    /\ op = "none"
    /\ op' = "subfolder"
    /\ path' = p
    /\ result' = subfolder(tree, p)
    /\ UNCHANGED <<tree, loadVars, romVars>>

\* save(tree)
Save ==
    /\ pc = "tree"
    /\ op = "none"
    /\ op' = "save"
    /\ path' = <<>>
    /\ result' = save(tree)
    /\ UNCHANGED <<tree, loadVars, romVars>>

\* load(save(tree))
LoadSave ==
    /\ pc = "tree"
    /\ op = "none"
    /\ op' = "loadSave"
    /\ path' = <<>>
    /\ result' = loadSave(tree)
    /\ UNCHANGED <<tree, loadVars, romVars>>

NextTree ==
    \/ \E p \in Paths : IdOf(p)
    \/ \E p \in Paths : Subfolder(p)
    \/ Save
    \/ LoadSave

SpecTree == InitTree /\ [][NextTree]_vars

(***************************************************************************)
(* Properties of the tree operations.                                      *)
(***************************************************************************)
\* The folders of a tree, the root first
RECURSIVE FoldersOf(_)
RECURSIVE FoldersFrom(_, _)
FoldersFrom(folders, i) ==
    IF i > Len(folders) THEN <<>>
    ELSE FoldersOf(folders[i][2]) \o FoldersFrom(folders, i + 1)
FoldersOf(t) == <<t>> \o FoldersFrom(t.folders, 1)

\* Every file and folder name of the tree
NamesOf(t) ==
    LET fs == FoldersOf(t)
    IN  UNION {{fs[i].files[j] : j \in 1..Len(fs[i].files)}
                 \cup {fs[i].folders[j][1] : j \in 1..Len(fs[i].folders)} :
               i \in 1..Len(fs)}

NamesFit(t) == \A n \in NamesOf(t) : Len(n) <= 127
NamesAscii(t) == \A n \in NamesOf(t) : \A i \in 1..Len(n) : n[i] < 128

\* The file IDs of a folder
IdsOf(f) == f.firstID .. (f.firstID + Len(f.files) - 1)

\* No file ID belongs to two folders
IdsDisjoint(t) ==
    LET fs == FoldersOf(t)
    IN  \A i, j \in 1..Len(fs) : i # j => IdsOf(fs[i]) \cap IdsOf(fs[j]) = {}

\* C1: load(save(tree)) returns the tree itself (the same files, subfolder
\* names and order, and firstID in every folder), for every tree of ASCII
\* names of at most 127 bytes whose folders' file IDs do not overlap.
C1_RoundTrip ==
    (op = "loadSave" /\ NamesFit(tree) /\ NamesAscii(tree) /\ IdsDisjoint(tree))
        => (IsOk(result) /\ result.val = tree)

\* C2: save gives the root folder the ID 0xF000 (the value the assertion of
\* line 348 compares with) and writes the root's entry, its firstID and the
\* folder count, in slot 0 of the folder table.
C2_RootSentinel ==
    (op = "save" /\ NamesFit(tree))
        => /\ IsOk(saveRoot(tree))
           /\ saveRoot(tree).val.folderID = ROOT_ID
           /\ IsOk(result)
           /\ U16At(result.val, 4) = tree.firstID
           /\ U16At(result.val, 6) = countFoldersIn(tree)

\* C3: idOf and subfolder return a result or None for every tree and every
\* path, the empty path and a path of separators only included; they never
\* raise.
C3_LookupNeverRaises ==
    op \in {"idOf", "subfolder"} => ~IsRaise(result)

\* The path without its leading and trailing separators
RECURSIVE TrimSlashes(_)
TrimSlashes(p) ==
    IF p = <<>> THEN p
    ELSE IF p[1] = Slash THEN TrimSlashes(Tail(p))
    ELSE IF p[Len(p)] = Slash THEN TrimSlashes(SubSeq(p, 1, Len(p) - 1))
    ELSE p

\* The components n1, ..., nk of n1/n2/.../nk, taken from the right
RECURSIVE ComponentsOf(_)
ComponentsOf(p) ==
    IF \A i \in 1..Len(p) : p[i] # Slash THEN <<p>>
    ELSE LET i == CHOOSE k \in 1..Len(p) :
                      p[k] = Slash /\ \A m \in (k+1)..Len(p) : p[m] # Slash
         IN  Append(ComponentsOf(SubSeq(p, 1, i - 1)), SubSeq(p, i + 1, Len(p)))

\* The folder that the names ns lead to from f, each naming a subfolder of
\* the folder before (the first of that name); <<>> when one names none
RECURSIVE Walk(_, _)
Walk(f, ns) ==
    IF ns = <<>> THEN <<f>>
    ELSE LET hits == {i \in 1..Len(f.folders) : f.folders[i][1] = ns[1]}
         IN  IF hits = {} THEN <<>>
             ELSE Walk(f.folders[CHOOSE i \in hits : \A j \in hits : i <= j][2],
                       Tail(ns))

\* The positions of name n in the file list of f
PositionsOf(f, n) == {i \in 1..Len(f.files) : f.files[i] = n}

\* C4: for a path n1/.../nk of non-empty components, with any number of
\* leading and trailing separators added, in which n1..n(k-1) name nested
\* subfolders ending in folder F: idOf is F.firstID plus the index of nk in
\* F.files when nk is listed there, and None when it is not.
C4_PathResolution ==
    op = "idOf" =>
        LET ns == ComponentsOf(TrimSlashes(path))
            k == Len(ns)
            w == Walk(tree, SubSeq(ns, 1, k - 1))
        IN  ((\A i \in 1..k : ns[i] # <<>>) /\ w # <<>>) =>
                LET F == w[1]
                    at == PositionsOf(F, ns[k])
                IN  IF at = {} THEN IsNone(result)
                    ELSE /\ IsOk(result)
                         /\ result.val + 1 - F.firstID \in at
                         /\ \A i \in at : result.val + 1 - F.firstID <= i

\* C4's case: "/a/b/a/" resolved through two nested subfolders to the second
\* file of a folder whose firstID is 1.
C4_Witness ==
    /\ op = "idOf"
    /\ path = Join(<< <<>>, A, B, A, <<>> >>)
    /\ Len(tree.folders) = 1
    /\ IsOk(result)
    /\ result.val = 2

\* C8: save raises the ValueError of the 127-character limit when a file or
\* folder name is longer than 127, and returns the FNT bytes when every name
\* is at most 127 long.
C8_NameLengthLimit ==
    op = "save" =>
        IF NamesFit(tree) THEN IsOk(result) ELSE result = Raise("ValueError")

(***************************************************************************)
(* NintendoDSRom._initFromData (src/nds.py:453-605).                       *)
(***************************************************************************)
HEADER_SIZE == 512
ICON_BANNER_LEN == 2112
RSA_POINTER_AT == 4096
RSA_LEN == 136
POST_RECORD_LEN == 12

\* b'\x21\x06\xC0\xDE'
POST_MAGIC == <<33, 6, 192, 222>>

Raw(n, l) == [name |-> n, kind |-> "raw", len |-> l]
R8(n) == [name |-> n, kind |-> "u8", len |-> 1]
R16(n) == [name |-> n, kind |-> "u16", len |-> 2]
R32(n) == [name |-> n, kind |-> "u32", len |-> 4]

\* A faulty variant of the layout: pad088 read as 0x37 bytes.
HeaderLayoutMutant ==
    << Raw("name", 12), Raw("idCode", 4), Raw("developerCode", 2),
       R8("unitCode"), R8("encryptionSeedSelect"), R8("deviceCapacity"),
       R8("pad015"), R8("pad016"), R8("pad017"), R8("pad018"), R8("pad019"),
       R8("pad01A"), R8("pad01B"), R8("pad01C"),
       R8("region"), R8("version"), R8("autostart"),
       R32("arm9Offset"), R32("arm9EntryAddress"), R32("arm9RamAddress"),
       R32("arm9Len"),
       R32("arm7Offset"), R32("arm7EntryAddress"), R32("arm7RamAddress"),
       R32("arm7Len"),
       R32("fntOffset"), R32("fntLen"), R32("fatOffset"), R32("fatLen"),
       R32("arm9OvTOffset"), R32("arm9OvTLen"),
       R32("arm7OvTOffset"), R32("arm7OvTLen"),
       R32("normalCardControlRegisterSettings"),
       R32("secureCardControlRegisterSettings"),
       R32("iconBannerOffset"),
       R16("secureAreaChecksum"), R16("secureTransferDelay"),
       R32("arm9CodeSettingsPointerAddress"),
       R32("arm7CodeSettingsPointerAddress"),
       Raw("secureAreaDisable", 8),
       R32("romSizeOrRsaSigOffset"), R32("headerSize"),
       Raw("pad088", 55), Raw("nintendoLogo", 156),
       R16("nintendoLogoChecksum"), R16("headerChecksum"),
       R32("debugRomOffset"), R32("debugRomSize"), R32("debugRomAddress"),
       Raw("pad16C", 148) >>

\* The header reads of lines 486-544, in order: the attribute or local each
\* sets, the reader used and the number of bytes it consumes.
HeaderLayout ==
    << Raw("name", 12), Raw("idCode", 4), Raw("developerCode", 2),
       R8("unitCode"), R8("encryptionSeedSelect"), R8("deviceCapacity"),
       R8("pad015"), R8("pad016"), R8("pad017"), R8("pad018"), R8("pad019"),
       R8("pad01A"), R8("pad01B"), R8("pad01C"),
       R8("region"), R8("version"), R8("autostart"),
       R32("arm9Offset"), R32("arm9EntryAddress"), R32("arm9RamAddress"),
       R32("arm9Len"),
       R32("arm7Offset"), R32("arm7EntryAddress"), R32("arm7RamAddress"),
       R32("arm7Len"),
       R32("fntOffset"), R32("fntLen"), R32("fatOffset"), R32("fatLen"),
       R32("arm9OvTOffset"), R32("arm9OvTLen"),
       R32("arm7OvTOffset"), R32("arm7OvTLen"),
       R32("normalCardControlRegisterSettings"),
       R32("secureCardControlRegisterSettings"),
       R32("iconBannerOffset"),
       R16("secureAreaChecksum"), R16("secureTransferDelay"),
       R32("arm9CodeSettingsPointerAddress"),
       R32("arm7CodeSettingsPointerAddress"),
       Raw("secureAreaDisable", 8),
       R32("romSizeOrRsaSigOffset"), R32("headerSize"),
       Raw("pad088", 56), Raw("nintendoLogo", 156),
       R16("nintendoLogoChecksum"), R16("headerChecksum"),
       R32("debugRomOffset"), R32("debugRomSize"), R32("debugRomAddress"),
       Raw("pad16C", 148) >>

\* The '(Load) Header offset check' assertions: the number of reads made
\* before each, and the offset it requires (0x00, 0x15, 0x20, 0x40, 0x60,
\* 0x70, 0x80, 0x160, 0x200).
HeaderChecks ==
    (0 :> 0) @@ (6 :> 21) @@ (17 :> 32) @@ (25 :> 64) @@ (33 :> 96)
    @@ (38 :> 112) @@ (41 :> 128) @@ (47 :> 352) @@ (51 :> 512)

\* The assertion placed before the read numbered idx + 1 holds (or none is)
CheckOk(idx, offset) == idx \in DOMAIN HeaderChecks => offset = HeaderChecks[idx]

\* A faulty variant of the padding: the buffer is left as given.
padDataMutant(d) == d

\* Lines 460-463: the working copy, extended with zeros to 0x200 bytes
padData(d) ==
    IF Len(d) < HEADER_SIZE THEN d \o Zeros(HEADER_SIZE - Len(d)) ELSE d

\* bytes.rstrip(b'\0')
RECURSIVE rstripZero(_)
rstripZero(b) ==
    IF b # <<>> /\ b[Len(b)] = 0 THEN rstripZero(SubSeq(b, 1, Len(b) - 1)) ELSE b

\* readRaw / read8 / read16 / read32 at the cursor: the value read
readRaw(d, offset, length) == Ok(Slice(d, offset, offset + length))
read8(d, offset) == IF offset < Len(d) THEN Ok(U8At(d, offset)) ELSE Raise("IndexError")
read16(d, offset) ==
    IF CanUnpack(d, offset, 2) THEN Ok(U16At(d, offset)) ELSE Raise("struct.error")
read32(d, offset) ==
    IF CanUnpack(d, offset, 4) THEN Ok(U32At(d, offset)) ELSE Raise("struct.error")

\* The right-hand side of one header line
readField(d, offset, f) ==
    IF f.kind = "u8" THEN read8(d, offset)
    ELSE IF f.kind = "u16" THEN read16(d, offset)
    ELSE IF f.kind = "u32" THEN read32(d, offset)
    ELSE IF f.name = "name" THEN Ok(rstripZero(readRaw(d, offset, f.len).val))
    ELSE readRaw(d, offset, f.len)

\* A faulty variant of the signature read: the pointer at 0x1000 is not consulted.
rsaSignatureOfMutant(d, romSizeOrRsaSigOffset) ==
    LET realSigOffset ==
            IF Len(d) > romSizeOrRsaSigOffset THEN romSizeOrRsaSigOffset ELSE 0
    IN  IF realSigOffset # 0
        THEN Slice(d, realSigOffset,
                   IF Len(d) < realSigOffset + RSA_LEN THEN Len(d)
                   ELSE realSigOffset + RSA_LEN)
        ELSE <<>>

\* Lines 548-556: self.rsaSignature
rsaSignatureOf(d, romSizeOrRsaSigOffset) ==
    LET sig1 == IF Len(d) >= RSA_POINTER_AT + 4 THEN U32At(d, RSA_POINTER_AT) ELSE 0
        realSigOffset ==
            IF sig1 = 0 /\ Len(d) > romSizeOrRsaSigOffset
            THEN romSizeOrRsaSigOffset ELSE sig1
    IN  IF realSigOffset # 0
        THEN Slice(d, realSigOffset,
                   IF Len(d) < realSigOffset + RSA_LEN THEN Len(d)
                   ELSE realSigOffset + RSA_LEN)
        ELSE <<>>

\* A faulty variant of the record copy: only the marker is kept.
postRecordMutant(d, offset) == Slice(d, offset, offset + 4)

\* Line 585: the bytes one iteration of the scan appends
postRecord(d, offset) == Slice(d, offset, offset + POST_RECORD_LEN)

\* Lines 583-584: the loop condition of the scan
postMagicAt(d, offset) == Slice(d, offset, offset + 4) = POST_MAGIC

\* Lines 600-602: self.files, one slice per whole 8-byte record of fat
filesOf(d, fat) ==
    [i \in 1..(Len(fat) \div 8) |->
        Slice(d, U32At(fat, 8 * (i - 1)), U32At(fat, 8 * (i - 1) + 4))]

\* Lines 599-603: offset2Id after the loop; a later record replaces an earlier
\* one of the same start offset
offset2IdOf(fat) ==
    LET n == Len(fat) \div 8
        starts == {U32At(fat, 8 * (i - 1)) : i \in 1..n}
    IN  [o \in starts |->
            (CHOOSE i \in 1..n : /\ U32At(fat, 8 * (i - 1)) = o
                                 /\ \A j \in (i+1)..n : U32At(fat, 8 * (j - 1)) # o) - 1]

\* sorted(S) for a set of integers
RECURSIVE sorted(_)
sorted(S) ==
    IF S = {} THEN <<>>
    ELSE LET m == CHOOSE x \in S : \A y \in S : x <= y
         IN  <<m>> \o sorted(S \ {m})

\* A faulty variant of the ordering: the IDs in ascending order of ID, not of
\* start offset.
sortedFileIdsOfMutant(fat) ==
    LET ids == sorted({offset2IdOf(fat)[o] : o \in DOMAIN offset2IdOf(fat)})
    IN  ids

\* Lines 604-605: self.sortedFileIds
sortedFileIdsOf(fat) ==
    LET keys == sorted(DOMAIN offset2IdOf(fat))
    IN  [k \in 1..Len(keys) |-> offset2IdOf(fat)[keys[k]]]

(***************************************************************************)
(* The buffers NintendoDSRom is constructed from.                          *)
(***************************************************************************)
MaxFatRecords == 3
MaxPostRecords == 2

\* The number of bytes the first n header reads consume
RECURSIVE OffsetAfter(_)
OffsetAfter(n) == IF n = 0 THEN 0 ELSE OffsetAfter(n - 1) + HeaderLayout[n].len

\* The offset of a header field
OffsetOf(name) ==
    OffsetAfter((CHOOSE i \in 1..Len(HeaderLayout) : HeaderLayout[i].name = name) - 1)

\* img with the bytes b written at offset off (inside img)
Patch(img, off, b) ==
    [i \in 1..Len(img) |-> IF i > off /\ i <= off + Len(b) THEN b[i - off] ELSE img[i]]

\* img with each 32-bit header field of sets (pairs <<name, value>>) written
RECURSIVE SetFields(_, _)
SetFields(img, sets) ==
    IF sets = <<>> THEN img
    ELSE SetFields(Patch(img, OffsetOf(sets[1][1]), LE32(sets[1][2])), Tail(sets))

\* n bytes, each telling its position; every 32-bit value read from them
\* stays below 2^30
Ramp(n) == [i \in 1..n |-> (i - 1) % 32]
Fill(n, b) == [i \in 1..n |-> b]

\* img with every region of the header declared absent
NoRegions(img) ==
    SetFields(img, << <<"arm9Offset", 0>>, <<"arm9Len", 0>>, <<"arm7Offset", 0>>,
                      <<"arm7Len", 0>>, <<"fntOffset", 0>>, <<"fntLen", 0>>,
                      <<"fatOffset", 0>>, <<"fatLen", 0>>, <<"arm9OvTOffset", 0>>,
                      <<"arm9OvTLen", 0>>, <<"arm7OvTOffset", 0>>,
                      <<"arm7OvTLen", 0>>, <<"iconBannerOffset", 0>>,
                      <<"romSizeOrRsaSigOffset", 0>>, <<"debugRomOffset", 0>>,
                      <<"debugRomSize", 0>> >>)

\* A ramp header that declares no region
BaseHeader == NoRegions(Ramp(HEADER_SIZE))

\* A one-folder FNT: the file "a", firstID 0
SmallFnt == <<8, 0, 0, 0, 0, 0, 1, 0, 1, 97, 0>>

\* Headers, whole: all zero, a ramp, a constant, one that declares an FNT too
\* short to decode, one that declares a signature offset inside the header,
\* and one that declares a well-formed FNT inside the header bytes
HeaderImages ==
    { Fill(HEADER_SIZE, 0), Ramp(HEADER_SIZE), Fill(HEADER_SIZE, 63),
      SetFields(BaseHeader, << <<"fntLen", 1>> >>),
      SetFields(BaseHeader, << <<"romSizeOrRsaSigOffset", 336>> >>),
      SetFields(Patch(BaseHeader, OffsetOf("pad088"), SmallFnt),
                << <<"fntOffset", OffsetOf("pad088")>>, <<"fntLen", Len(SmallFnt)>> >>) }

\* The headers cut at a field boundary, inside a field, and not at all
TruncatedInputs ==
    {Slice(img, 0, n) : img \in HeaderImages, n \in {0, 21, 66, 130, 256, 511, 512}}

\* A FAT of n records, start offsets from {50, 100, 200}, every end offset 104
FatOf(starts) ==
    IF Len(starts) = 0 THEN <<>>
    ELSE LET RECURSIVE cat(_)
             cat(i) == IF i > Len(starts) THEN <<>>
                       ELSE LE32(starts[i]) \o LE32(104) \o cat(i + 1)
         IN  cat(1)

\* A header, then a FAT of 1..MaxFatRecords records and `extra` more bytes
FatInputs ==
    {SetFields(BaseHeader,
               << <<"fatOffset", HEADER_SIZE>>, <<"fatLen", Len(FatOf(st)) + extra>> >>)
        \o FatOf(st) \o Ramp(extra) :
     st \in UNION {[1..n -> {50, 100, 200}] : n \in 1..MaxFatRecords},
     extra \in {0, 3}}

\* k whole records of the post-ARM9 marker and 8 more bytes each
RECURSIVE PostRecords(_)
PostRecords(k) ==
    IF k = 0 THEN <<>> ELSE POST_MAGIC \o Ramp(8) \o PostRecords(k - 1)

\* What may follow the records: nothing, a part of the marker, the marker
\* alone, a record cut short, other bytes
PostTails ==
    {<<>>, <<33, 6>>, POST_MAGIC, POST_MAGIC \o Ramp(7), Ramp(12)}

\* A header, an ARM9 region of a bytes at 0x200, then records and a tail; and
\* one whose ARM9 region is declared longer than the buffer
PostInputs ==
    {SetFields(BaseHeader,
               << <<"arm9Offset", HEADER_SIZE>>, <<"arm9Len", a>> >>)
        \o Ramp(a) \o PostRecords(k) \o t :
     a \in {0, 3}, k \in 0..MaxPostRecords, t \in PostTails}
    \cup {SetFields(BaseHeader,
                    << <<"arm9Offset", HEADER_SIZE>>, <<"arm9Len", 64>> >>)
            \o POST_MAGIC}

\* Buffers around the 0x1004 bytes that make the pointer at 0x1000 readable,
\* with that pointer and the header's romSizeOrRsaSigOffset varied
RsaInputs ==
    {Slice(SetFields(BaseHeader, << <<"romSizeOrRsaSigOffset", rs>> >>)
               \o Patch(Ramp(3840), RSA_POINTER_AT - HEADER_SIZE, LE32(ptr)), 0, n) :
     n \in {4099, 4100, 4352}, ptr \in {0, 4104, 4340, 8192},
     rs \in {0, 384, 4099, 4352}}

Inputs == TruncatedInputs \cup FatInputs \cup PostInputs \cup RsaInputs

(***************************************************************************)
(* NintendoDSRom(data) as actions: pc is the position in _initFromData.    *)
(***************************************************************************)
InitRom ==
    /\ input \in Inputs
    /\ data = <<>>
    /\ pc = "start"
    /\ headerOffset = 0
    /\ fieldIdx = 0
    /\ hdr = <<>>
    /\ scan = <<>>
    /\ rom = <<>>
    /\ last = NoneVal
    /\ tree = EmptyFolder
    /\ op = "none"
    /\ path = <<>>
    /\ result = NoneVal
    /\ fntBuf = <<>>
    /\ layout = <<>>

\* An exception leaves _initFromData
Raised(e) ==
    /\ pc' = "raised"
    /\ last' = Raise(e)

\* Lines 459-463
Pad ==
    /\ pc = "start"
    /\ headerOffset' = 0
    /\ data' = padData(input)
    /\ IF Len(input) < HEADER_SIZE /\ Len(padData(input)) # HEADER_SIZE
       THEN Raised("AssertionError")
       ELSE pc' = "header" /\ UNCHANGED last
    /\ UNCHANGED <<treeVars, input, fieldIdx, hdr, scan, rom>>

\* One header line of 486-544, after the offset assertion that precedes it
ReadHeaderField ==
    /\ pc = "header"
    /\ fieldIdx < Len(HeaderLayout)
    /\ LET f == HeaderLayout[fieldIdx + 1]
           v == readField(data, headerOffset, f)
       IN  IF ~CheckOk(fieldIdx, headerOffset)
           THEN Raised("AssertionError") /\ UNCHANGED <<headerOffset, fieldIdx, hdr>>
           ELSE IF IsRaise(v)
           THEN Raised(v.exc) /\ UNCHANGED <<headerOffset, fieldIdx, hdr>>
           ELSE /\ headerOffset' = headerOffset + f.len
                /\ fieldIdx' = fieldIdx + 1
                /\ hdr' = (f.name :> v.val) @@ hdr
                /\ UNCHANGED <<pc, last>>
    /\ UNCHANGED <<treeVars, input, data, scan, rom>>

\* Lines 545-556: the last offset assertion, pad200 and the RSA signature
ReadRsa ==
    /\ pc = "header"
    /\ fieldIdx = Len(HeaderLayout)
    /\ IF ~CheckOk(fieldIdx, headerOffset)
       THEN Raised("AssertionError") /\ UNCHANGED rom
       ELSE /\ rom' = [pad200 |->
                          Slice(data, HEADER_SIZE,
                                IF hdr.arm9Offset < Len(data) THEN hdr.arm9Offset
                                ELSE Len(data)),
                       rsaSignature |-> rsaSignatureOf(data, hdr.romSizeOrRsaSigOffset)]
            /\ pc' = "regions"
            /\ UNCHANGED last
    /\ UNCHANGED <<treeVars, input, data, headerOffset, fieldIdx, hdr, scan>>

\* Lines 558-582: the regions sliced out of the buffer, and the start of the
\* post-ARM9 scan.  fnt and fat are the locals of these names.
ReadRegions ==
    /\ pc = "regions"
    /\ rom' = [arm9 |-> Slice(data, hdr.arm9Offset, hdr.arm9Offset + hdr.arm9Len),
               arm7 |-> Slice(data, hdr.arm7Offset, hdr.arm7Offset + hdr.arm7Len),
               fnt |-> Slice(data, hdr.fntOffset, hdr.fntOffset + hdr.fntLen),
               fat |-> Slice(data, hdr.fatOffset, hdr.fatOffset + hdr.fatLen),
               arm9OverlayTable |->
                   Slice(data, hdr.arm9OvTOffset, hdr.arm9OvTOffset + hdr.arm9OvTLen),
               arm7OverlayTable |->
                   Slice(data, hdr.arm7OvTOffset, hdr.arm7OvTOffset + hdr.arm7OvTLen),
               iconBanner |->
                   IF hdr.iconBannerOffset # 0
                   THEN Slice(data, hdr.iconBannerOffset,
                              hdr.iconBannerOffset + ICON_BANNER_LEN)
                   ELSE <<>>,
               debugRom |->
                   IF hdr.debugRomOffset # 0
                   THEN Slice(data, hdr.debugRomOffset,
                              hdr.debugRomOffset + hdr.debugRomSize)
                   ELSE <<>>] @@ rom
    /\ scan' = [off |-> hdr.arm9Offset + hdr.arm9Len, out |-> <<>>, iters |-> 0]
    /\ pc' = "scan"
    /\ UNCHANGED <<treeVars, input, data, headerOffset, fieldIdx, hdr, last>>

\* Lines 583-587: one evaluation of the loop condition of the scan, with the
\* loop body when it holds and the assignment of arm9PostData when it does not
ScanStep ==
    /\ pc = "scan"
    /\ IF postMagicAt(data, scan.off)
       THEN /\ scan' = [off |-> scan.off + POST_RECORD_LEN,
                        out |-> scan.out \o postRecord(data, scan.off),
                        iters |-> scan.iters + 1]
            /\ UNCHANGED <<pc, rom>>
       ELSE /\ rom' = [arm9PostData |-> scan.out] @@ rom
            /\ pc' = "filenames"
            /\ UNCHANGED scan
    /\ UNCHANGED <<treeVars, input, data, headerOffset, fieldIdx, hdr, last>>

\* Lines 589-593
ReadFilenames ==
    /\ pc = "filenames"
    /\ IF rom.fnt # <<>>
       THEN LET f == load(rom.fnt)
            IN  IF IsRaise(f) THEN Raised(f.exc) /\ UNCHANGED rom
                ELSE /\ rom' = [filenames |-> f.val] @@ rom
                     /\ pc' = "files"
                     /\ UNCHANGED last
       ELSE /\ rom' = [filenames |-> EmptyFolder] @@ rom
            /\ pc' = "files"
            /\ UNCHANGED last
    /\ UNCHANGED <<treeVars, input, data, headerOffset, fieldIdx, hdr, scan>>

\* Lines 595-605
ReadFiles ==
    /\ pc = "files"
    /\ rom' = (IF rom.fat # <<>>
               THEN [files |-> filesOf(data, rom.fat),
                     sortedFileIds |-> sortedFileIdsOf(rom.fat)]
               ELSE [files |-> <<>>, sortedFileIds |-> <<>>]) @@ rom
    /\ pc' = "ready"
    /\ UNCHANGED <<treeVars, input, data, headerOffset, fieldIdx, hdr, scan, last>>

NextRom ==
    \/ Pad
    \/ ReadHeaderField
    \/ ReadRsa
    \/ ReadRegions
    \/ ScanStep
    \/ ReadFilenames
    \/ ReadFiles

SpecRom == InitRom /\ [][NextRom]_vars

(***************************************************************************)
(* Properties of NintendoDSRom(data).                                      *)
(***************************************************************************)
\* The header has been read to its end
PastHeader == pc \in {"regions", "scan", "filenames", "files", "ready"}
PastScan == pc \in {"filenames", "files", "ready"}

\* A header value is zero: the number 0, or bytes that are all 0
IsZero(f, v) ==
    IF f.kind = "raw" THEN \A i \in 1..Len(v) : v[i] = 0 ELSE v = 0

\* The buffer as padded, and the fields read so far that lie at or beyond the
\* end of the input read as zero
PaddedAndZero ==
    (Len(input) < 512 /\ pc # "start") =>
        /\ Len(data) = 512
        /\ SubSeq(data, 1, Len(input)) = input
        /\ \A i \in (Len(input) + 1)..512 : data[i] = 0
        /\ \A i \in 1..fieldIdx :
              OffsetAfter(i - 1) >= Len(input)
                  => IsZero(HeaderLayout[i], hdr[HeaderLayout[i].name])

FatStart(i) == U32At(rom.fat, 8 * i)
FatEnd(i) == U32At(rom.fat, 8 * i + 4)

\* C6: after decoding, the file with ID i is the bytes data[start_i:end_i] of
\* the i-th 8-byte FAT record, and sortedFileIds holds file IDs in ascending
\* order of their start offset.
C6_FatOrdering ==
    pc = "ready" =>
        LET n == Len(rom.fat) \div 8
            ids == rom.sortedFileIds
        IN  /\ Len(rom.files) = n
            /\ \A i \in 0..(n - 1) :
                  rom.files[i + 1] = Slice(data, FatStart(i), FatEnd(i))
            /\ \A k \in 1..Len(ids) : ids[k] \in 0..(n - 1)
            /\ \A k \in 1..(Len(ids) - 1) : FatStart(ids[k]) <= FatStart(ids[k + 1])
            /\ (n > 0 => Len(ids) > 0)

\* C6's case: start offsets 100, 50, 200 for the IDs 0, 1, 2 give <<1, 0, 2>>.
C6_Witness ==
    /\ pc = "ready"
    /\ Len(rom.files) = 3
    /\ FatStart(0) = 100 /\ FatStart(1) = 50 /\ FatStart(2) = 200
    /\ rom.sortedFileIds = <<1, 0, 2>>
    /\ Len(rom.files[1]) = 4

\* Where the post-ARM9 scan starts
PostStart == hdr.arm9Offset + hdr.arm9Len

\* The number of consecutive positions p, p + 12, ... that hold the marker
RECURSIVE MagicRun(_)
MagicRun(p) ==
    IF p + 4 <= Len(data) /\ SubSeq(data, p + 1, p + 4) = <<33, 6, 192, 222>>
    THEN 1 + MagicRun(p + 12)
    ELSE 0

\* The scan stays inside the buffer and ends: a position it reaches after an
\* iteration is at most 8 bytes past the end, and what it has gathered is
\* the bytes of the buffer from its start on.
ScanInBounds ==
    pc = "scan" =>
        /\ scan.off = PostStart + 12 * scan.iters
        /\ scan.iters > 0 => scan.off <= Len(data) + 8
        /\ scan.iters <= MagicRun(PostStart)
        /\ scan.out = Slice(data, PostStart, scan.off)

\* C7 as stated: arm9PostData is k whole 12-byte records, 12 * k bytes, k the
\* number of consecutive marker positions from arm9Offset + arm9Len on.
C7_PostDataWholeRecords ==
    /\ ScanInBounds
    /\ PastScan =>
          /\ Len(rom.arm9PostData) = 12 * MagicRun(PostStart)
          /\ rom.arm9PostData = Slice(data, PostStart, PostStart + 12 * MagicRun(PostStart))

\* C7, amended: the scan ends and stays inside the buffer, and arm9PostData
\* is the k records from arm9Offset + arm9Len on, each 12 bytes long except
\* that the last is cut at the end of the buffer: min(12 * k, len(data) -
\* start) bytes, 0 when the ARM9 region ends at or beyond the buffer end.
C7_PostDataScan ==
    /\ ScanInBounds
    /\ PastScan =>
          LET k == MagicRun(PostStart)
          IN  /\ rom.arm9PostData = Slice(data, PostStart, PostStart + 12 * k)
              /\ Len(rom.arm9PostData) =
                     IF k = 0 THEN 0
                     ELSE IF 12 * k <= Len(data) - PostStart THEN 12 * k
                     ELSE Len(data) - PostStart
              /\ Len(rom.arm9PostData) > 12 * (k - 1) \/ k = 0
              /\ PostStart >= Len(data) => k = 0

\* C7's case: two whole records after the ARM9 region, then other bytes.
C7_Witness ==
    /\ pc = "ready"
    /\ hdr.arm9Len = 3
    /\ MagicRun(PostStart) = 2
    /\ Len(rom.arm9PostData) = 24
    /\ Len(data) > PostStart + 24

\* C9: the RSA signature is read at the 32-bit value at 0x1000 when the
\* buffer holds 0x1004 bytes and that value is not 0, else at
\* romSizeOrRsaSigOffset when the buffer is longer than it; it is empty when
\* the offset so found is 0, and else data[off : min(len(data), off + 0x88)]:
\* at most 0x88 bytes, none beyond the buffer.  The buffer is data, the
\* working copy (padded to 0x200 bytes when the input is shorter).
C9_RsaSignature ==
    PastHeader =>
        LET n == Len(data)
            ptr == IF n >= 4100
                   THEN data[4097] + 256 * data[4098] + 65536 * data[4099]
                        + 16777216 * data[4100]
                   ELSE 0
            off == IF ptr # 0 THEN ptr
                   ELSE IF n > hdr.romSizeOrRsaSigOffset
                        THEN hdr.romSizeOrRsaSigOffset ELSE 0
            sig == rom.rsaSignature
        IN  /\ Len(sig) <= 136
            /\ off = 0 => sig = <<>>
            /\ off # 0 =>
                  /\ Len(sig) = IF off >= n THEN 0
                                ELSE IF off + 136 <= n THEN 136 ELSE n - off
                  /\ \A i \in 1..Len(sig) : sig[i] = data[off + i]

\* C9's case: a pointer at 0x1000 that leaves fewer than 0x88 bytes to the
\* end of the buffer, preferred to a usable romSizeOrRsaSigOffset.
C9_Witness ==
    /\ PastHeader
    /\ Len(data) = 4352
    /\ U32At(data, 4096) = 4340
    /\ hdr.romSizeOrRsaSigOffset = 384
    /\ rom.rsaSignature = SubSeq(data, 4341, 4352)

\* C10: the cursor is 0 at the start and the sum of the widths of the reads
\* made so far throughout; it is 0x15, 0x20, 0x40, 0x60, 0x70, 0x80, 0x160
\* and 0x200 where the assertions require it, none of which fails, and 0x200
\* once the header is read.
C10_HeaderCursor ==
    /\ pc # "start" => headerOffset = OffsetAfter(fieldIdx)
    /\ \A c \in DOMAIN HeaderChecks :
          (pc = "header" /\ fieldIdx = c) => headerOffset = HeaderChecks[c]
    /\ {HeaderChecks[c] : c \in DOMAIN HeaderChecks}
           = {0, 21, 32, 64, 96, 112, 128, 352, 512}
    /\ ~(pc = "raised" /\ last = Raise("AssertionError"))
    /\ ~(pc = "raised" /\ fieldIdx < Len(HeaderLayout))
    /\ PastHeader => (headerOffset = 512 /\ fieldIdx = Len(HeaderLayout))

\* C10's case: the header of a buffer longer than the header read to its end.
C10_Witness ==
    /\ pc = "ready"
    /\ Len(input) > 512
    /\ headerOffset = 512
    /\ fieldIdx = 51

(***************************************************************************)
(* The ROM container: NintendoDSRom() (src/nds.py:387-450) and the lookups *)
(* by name (src/nds.py:654-673) on a constructed object.                   *)
(***************************************************************************)
\* Lines 425-432: the default self.nintendoLogo
NINTENDO_LOGO ==
    << 36, 255, 174, 81, 105, 154, 162, 33, 61, 132, 130, 10, 132, 228, 9,
       173, 17, 36, 139, 152, 192, 129, 127, 33, 163, 82, 190, 25, 147, 9,
       206, 32, 16, 70, 74, 74, 248, 39, 49, 236, 88, 199, 232, 51, 130, 227,
       206, 191, 133, 244, 223, 148, 206, 75, 9, 193, 148, 86, 138, 192, 19,
       114, 167, 252, 159, 132, 77, 115, 163, 202, 154, 97, 88, 151, 163, 39,
       252, 3, 152, 118, 35, 29, 199, 97, 3, 4, 174, 86, 191, 56, 132, 0, 64,
       167, 14, 253, 255, 82, 254, 3, 111, 149, 48, 241, 151, 251, 192, 133,
       96, 214, 128, 37, 169, 99, 190, 3, 1, 78, 56, 226, 249, 162, 52, 255,
       187, 62, 3, 68, 120, 0, 144, 203, 136, 17, 58, 148, 101, 192, 124, 99,
       135, 240, 60, 175, 214, 37, 228, 139, 56, 10, 172, 114, 33, 212, 248,
       7 >>

\* Lines 392-434 and 450: the header attributes of a default ROM
NewHeader ==
    [name |-> <<>>, idCode |-> <<35, 35, 35, 35>>, developerCode |-> <<0, 0>>,
     unitCode |-> 0, encryptionSeedSelect |-> 0, deviceCapacity |-> 9,
     pad015 |-> 0, pad016 |-> 0, pad017 |-> 0, pad018 |-> 0, pad019 |-> 0,
     pad01A |-> 0, pad01B |-> 0, pad01C |-> 0, region |-> 0, version |-> 0,
     autostart |-> 0, arm7Len |-> 0, arm9Len |-> 0, arm7Offset |-> 0,
     arm9Offset |-> 0, arm9EntryAddress |-> 33556480,
     arm9RamAddress |-> 33554432, arm7EntryAddress |-> 37224448,
     arm7RamAddress |-> 37224448,
     normalCardControlRegisterSettings |-> 4286039,
     secureCardControlRegisterSettings |-> 135792888,
     secureAreaChecksum |-> 0, secureTransferDelay |-> 3454,
     arm9CodeSettingsPointerAddress |-> 0,
     arm7CodeSettingsPointerAddress |-> 0,
     secureAreaDisable |-> Zeros(8), pad088 |-> Zeros(56),
     nintendoLogo |-> NINTENDO_LOGO, debugRomAddress |-> 0,
     pad16C |-> Zeros(148), romSizeOrRsaSigOffset |-> 0]

\* Lines 435-449: the other attributes of a default ROM
NewRom ==
    [pad200 |-> Zeros(15872), rsaSignature |-> <<>>, arm9 |-> <<>>,
     arm9PostData |-> <<>>, arm7 |-> <<>>, arm9OverlayTable |-> <<>>,
     arm7OverlayTable |-> <<>>, iconBanner |-> <<>>, debugRom |-> <<>>,
     filenames |-> EmptyFolder, files |-> <<>>, sortedFileIds |-> <<>>]

\* Lines 659-662: getFileByName on the attributes self
getFileByName(self, filename) ==
    LET fid == idOf(self.filenames, filename)
    IN  IF IsRaise(fid) THEN fid
        ELSE IF IsNone(fid) THEN Raise("ValueError")
        ELSE IF fid.val < Len(self.files) THEN Ok(self.files[fid.val + 1])
        ELSE Raise("IndexError")

\* Lines 670-673: setFileByName on the attributes self; the attributes after
\* the call and its outcome
setFileByName(self, filename, d) ==
    LET fid == idOf(self.filenames, filename)
    IN  IF IsRaise(fid) THEN [self |-> self, out |-> fid]
        ELSE IF IsNone(fid) THEN [self |-> self, out |-> Raise("ValueError")]
        ELSE IF fid.val < Len(self.files)
        THEN [self |-> [self EXCEPT !.files[fid.val + 1] = d], out |-> NoneVal]
        ELSE [self |-> self, out |-> Raise("IndexError")]

\* A two-folder FNT: the file "a" (ID 0) and the folder "b" with its own file
\* "a" (ID 1)
TwoFolderFnt ==
    <<16, 0, 0, 0, 0, 0, 2, 0,   23, 0, 0, 0, 1, 0, 0, 240,
      1, 97, 129, 98, 1, 240, 0,   1, 97, 0>>

\* A header with the FNT f inside its bytes, then a FAT of k records whose
\* start offsets are 50, 100, ... and whose end offsets are 104
NamedInputs ==
    {SetFields(Patch(BaseHeader, OffsetOf("pad088"), f),
               << <<"fntOffset", OffsetOf("pad088")>>, <<"fntLen", Len(f)>>,
                  <<"fatOffset", HEADER_SIZE>>, <<"fatLen", 8 * k>> >>)
        \o FatOf([i \in 1..k |-> 50 * i]) :
     f \in {SmallFnt, TwoFolderFnt}, k \in 0..MaxFatRecords}

\* The paths looked up and the data stored
RomPaths == {<<>>, A, B, <<99>>, <<47, 97>>, <<98, 47, 97>>, <<98, 47, 98>>}
FileData == {<<>>, <<7>>}

\* NintendoDSRom(data) with data from Inputs or NamedInputs, or NintendoDSRom()
InitContainer ==
    /\ \/ input \in Inputs \cup NamedInputs /\ pc = "start"
       \/ input = <<>> /\ pc = "new"
    /\ data = <<>>
    /\ headerOffset = 0
    /\ fieldIdx = 0
    /\ hdr = <<>>
    /\ scan = <<>>
    /\ rom = <<>>
    /\ last = NoneVal
    /\ tree = EmptyFolder
    /\ op = "none"
    /\ path = <<>>
    /\ result = NoneVal
    /\ fntBuf = <<>>
    /\ layout = <<>>

\* Lines 387-450
InitAsNew ==
    /\ pc = "new"
    /\ hdr' = NewHeader
    /\ rom' = NewRom
    /\ pc' = "ready"
    /\ UNCHANGED <<treeVars, input, data, headerOffset, fieldIdx, scan, last>>

\* Lines 654-662
GetFileByName(filename) ==
    /\ pc = "ready"
    /\ op' = "getFileByName"
    /\ path' = filename
    /\ last' = getFileByName(rom, filename)
    /\ UNCHANGED <<tree, result, loadVars, input, data, pc, headerOffset,
                   fieldIdx, hdr, scan, rom>>

\* Lines 665-673
SetFileByName(filename, d) ==
    /\ pc = "ready"
    /\ op' = "setFileByName"
    /\ path' = filename
    /\ rom' = setFileByName(rom, filename, d).self
    /\ last' = setFileByName(rom, filename, d).out
    /\ UNCHANGED <<tree, result, loadVars, input, data, pc, headerOffset,
                   fieldIdx, hdr, scan>>

NextContainer ==
    \/ NextRom
    \/ InitAsNew
    \/ \E p \in RomPaths : GetFileByName(p)
    \/ \E p \in RomPaths, d \in FileData : SetFileByName(p, d)

SpecContainer == InitContainer /\ [][NextContainer]_vars

(***************************************************************************)
(* Properties of the ROM container.                                        *)
(***************************************************************************)
\* C11: once the ROM is constructed, by either constructor and after any
\* calls of setFileByName, every ID that idOf returns for a path is an index
\* into files, and no lookup of such a path ends in an IndexError.
C11_FileIdConsistency ==
    pc = "ready" =>
        /\ \A p \in RomPaths :
               LET fid == idOf(rom.filenames, p)
               IN  IsOk(fid) => (0 <= fid.val /\ fid.val < Len(rom.files))
        /\ (op \in {"getFileByName", "setFileByName"}
              /\ IsOk(idOf(rom.filenames, path)))
               => last # Raise("IndexError")

(***************************************************************************)
(* Properties of the folder IDs of save.                                   *)
(***************************************************************************)
\* The number of folders in the first n subfolders of t, with their own
RECURSIVE FoldersBefore(_, _)
FoldersBefore(t, n) ==
    IF n = 0 THEN 0
    ELSE FoldersBefore(t, n - 1) + Len(FoldersOf(t.folders[n][2]))

\* The ID of the i-th subfolder of t in a depth-first pre-order numbering in
\* which t has the ID id
PreorderId(t, id, i) == id + 1 + FoldersBefore(t, i - 1)

\* The entries of the names ns from the i-th on: a length byte, the name, and
\* for a subfolder (ids not empty) its ID in two bytes
RECURSIVE EntriesFrom(_, _, _, _)
EntriesFrom(ns, ids, flag, i) ==
    IF i > Len(ns) THEN <<>>
    ELSE <<Len(ns[i]) + flag>> \o ns[i]
             \o (IF ids = <<>> THEN <<>> ELSE LE16(ids[i]))
             \o EntriesFrom(ns, ids, flag, i + 1)

\* The entries table of t when t has the ID id: files, subfolders, a zero
TableOf(t, id) ==
    EntriesFrom(t.files, <<>>, 0, 1)
        \o EntriesFrom([i \in 1..Len(t.folders) |-> t.folders[i][1]],
                       [i \in 1..Len(t.folders) |-> PreorderId(t, id, i)], 128, 1)
        \o <<0>>

\* The pre-order numbering of t and its descendants from id on: for each
\* folder its ID, the value of its parent-ID field, its firstID and table
RECURSIVE Numbering(_, _, _)
RECURSIVE NumberingFrom(_, _, _)
NumberingFrom(t, id, i) ==
    IF i > Len(t.folders) THEN <<>>
    ELSE Numbering(t.folders[i][2], PreorderId(t, id, i), id)
             \o NumberingFrom(t, id, i + 1)
Numbering(t, id, parentField) ==
    <<[id |-> id, parent |-> parentField, firstID |-> t.firstID,
       table |-> TableOf(t, id)]>> \o NumberingFrom(t, id, 1)

\* C12: save numbers the n folders of a tree 0xF000 .. 0xF000+n-1 in
\* depth-first pre-order; in the bytes it returns, the slot of each folder
\* carries the ID of the containing folder as its parent-ID field (n for the
\* root), and each subfolder entry carries the ID given to that subfolder,
\* which is greater than its parent's.
C12_FolderIdAssignment ==
    (op = "save" /\ NamesFit(tree) /\ NamesAscii(tree)) =>
        LET num == Numbering(tree, ROOT_ID, Len(FoldersOf(tree)))
            n == Len(FoldersOf(tree))
        IN  /\ IsOk(saveRoot(tree))
            /\ IsOk(result)
            /\ Len(num) = n
            /\ DOMAIN saveRoot(tree).val.folderEntries
                   = {num[k].id : k \in 1..n}
            /\ \A k \in 1..n :
                  LET slot == 8 * (k - 1)
                      at == U32At(result.val, slot)
                  IN  /\ num[k].id = ROOT_ID + k - 1
                      /\ k > 1 => (num[k].parent < num[k].id
                                     /\ num[k].parent >= ROOT_ID)
                      /\ U16At(result.val, slot + 4) = num[k].firstID
                      /\ U16At(result.val, slot + 6) = num[k].parent
                      /\ Slice(result.val, at, at + Len(num[k].table))
                             = num[k].table

(***************************************************************************)
(* load on buffers of its own (src/nds.py:226-268).                        *)
(***************************************************************************)
MaxSlots == 3

\* The subfolder IDs an entry may carry in a table of n slots: the ID of each
\* slot in the root's numbering, and 0, which the mask sends to slot 0 too
SubIds(n) == {ROOT_ID + s : s \in 0..(n - 1)} \cup {0}

\* Folder tables of 1..MaxSlots slots.  A slot lists its file names and the
\* IDs of its subfolder entries: up to two for the root, up to one for the
\* others, each any ID of SubIds.  cut is the number of bytes missing at the
\* end of the buffer.
SlotsOf(n) ==
    {[k \in 1..n |-> IF k = 1 THEN [files |-> <<>>, subs |-> r]
                     ELSE [files |-> <<A>>, subs |-> o[k]]] :
     r \in UNION {[1..m -> SubIds(n)] : m \in 0..2},
     o \in [2..n -> UNION {[1..m -> SubIds(n)] : m \in 0..1}]}

Layouts ==
    {[slots |-> sl, cut |-> c] :
     sl \in UNION {SlotsOf(n) : n \in 1..MaxSlots}, c \in {0, 1}}

\* The entries table of a slot: the files, the subfolders (all named "b"),
\* the zero that ends the table
RECURSIVE SubEntries(_)
SubEntries(ids) ==
    IF ids = <<>> THEN <<>>
    ELSE <<129>> \o B \o LE16(Head(ids)) \o SubEntries(Tail(ids))

RECURSIVE FileEntries(_)
FileEntries(names) ==
    IF names = <<>> THEN <<>>
    ELSE <<Len(Head(names))>> \o Head(names) \o FileEntries(Tail(names))

SlotEntries(slot) == FileEntries(slot.files) \o SubEntries(slot.subs) \o <<0>>

\* The buffer of a layout: the 8-byte slots (entries offset, firstID = the
\* slot's number, parent field), then the entries tables in slot order
RECURSIVE EntriesOffset(_, _)
EntriesOffset(slots, k) ==
    IF k = 1 THEN 8 * Len(slots)
    ELSE EntriesOffset(slots, k - 1) + Len(SlotEntries(slots[k - 1]))

RECURSIVE FntSlots(_, _)
FntSlots(slots, k) ==
    IF k > Len(slots) THEN <<>>
    ELSE LE32(EntriesOffset(slots, k)) \o LE16(k - 1)
             \o LE16(IF k = 1 THEN Len(slots) ELSE ROOT_ID)
             \o FntSlots(slots, k + 1)

RECURSIVE FntTables(_, _)
FntTables(slots, k) ==
    IF k > Len(slots) THEN <<>>
    ELSE SlotEntries(slots[k]) \o FntTables(slots, k + 1)

FntOf(l) ==
    LET whole == FntSlots(l.slots, 1) \o FntTables(l.slots, 1)
    IN  Slice(whole, 0, Len(whole) - l.cut)

InitLoad ==
    /\ layout \in Layouts
    /\ fntBuf = FntOf(layout)
    /\ tree = EmptyFolder
    /\ op = "none"
    /\ path = <<>>
    /\ result = NoneVal
    /\ input = <<>>
    /\ data = <<>>
    /\ pc = "load"
    /\ headerOffset = 0
    /\ fieldIdx = 0
    /\ hdr = <<>>
    /\ scan = <<>>
    /\ rom = <<>>
    /\ last = NoneVal

\* load(fntBuf)
Load ==
    /\ pc = "load"
    /\ op = "none"
    /\ op' = "load"
    /\ result' = load(fntBuf)
    /\ UNCHANGED <<tree, path, loadVars, romVars>>

NextLoad == Load

SpecLoad == InitLoad /\ [][NextLoad]_vars

(***************************************************************************)
(* Properties of load.                                                     *)
(***************************************************************************)
\* The slot an ID selects
SlotOf(id) == (id % SlotCount) + 1

\* Every subfolder entry carries an ID greater than the ID of the folder that
\* holds it, and no table lost its end
WellFormed(l) ==
    /\ l.cut = 0
    /\ \A k \in 1..Len(l.slots) :
          \A i \in 1..Len(l.slots[k].subs) : l.slots[k].subs[i] > ROOT_ID + k - 1

\* Some entry met on the way down from slot k selects the slot of the folder
\* that holds it or of one of the folders in anc, the folders above k
RECURSIVE Cyclic(_, _, _)
Cyclic(l, k, anc) ==
    \E i \in 1..Len(l.slots[k].subs) :
        LET s == SlotOf(l.slots[k].subs[i])
        IN  \/ s \in anc \cup {k}
            \/ Cyclic(l, s, anc \cup {k})

\* In a well-formed layout: the folders below and including slot k, counted
\* once for each way down to them, and the depth of the tree at slot k
RECURSIVE VisitsOf(_, _)
RECURSIVE VisitsFrom(_, _, _)
VisitsFrom(l, k, i) ==
    IF i > Len(l.slots[k].subs) THEN 0
    ELSE VisitsOf(l, SlotOf(l.slots[k].subs[i])) + VisitsFrom(l, k, i + 1)
VisitsOf(l, k) == 1 + VisitsFrom(l, k, 1)

RECURSIVE DepthOf(_, _)
RECURSIVE DepthFrom(_, _, _)
DepthFrom(l, k, i) ==
    IF i > Len(l.slots[k].subs) THEN 0
    ELSE LET d == DepthOf(l, SlotOf(l.slots[k].subs[i]))
             e == DepthFrom(l, k, i + 1)
         IN  IF d > e THEN d ELSE e
DepthOf(l, k) == 1 + DepthFrom(l, k, 1)

\* The depth of a Folder
RECURSIVE FolderDepth(_)
RECURSIVE FolderDepthFrom(_, _)
FolderDepthFrom(folders, i) ==
    IF i > Len(folders) THEN 0
    ELSE LET d == FolderDepth(folders[i][2])
             e == FolderDepthFrom(folders, i + 1)
         IN  IF d > e THEN d ELSE e
FolderDepth(f) == 1 + FolderDepthFrom(f.folders, 1)

\* C13: on a buffer whose subfolder IDs all exceed the ID of the folder that
\* holds them and whose tables all end inside the buffer, load returns a
\* Folder; it has entered loadFolder once for each way down to a folder, and
\* never deeper than the tree is deep, which is at most the number of slots.
C13_LoadTerminates ==
    (op = "load" /\ WellFormed(layout)) =>
        /\ IsOk(result)
        /\ Len(FoldersOf(result.val)) = VisitsOf(layout, 1)
        /\ FolderDepth(result.val) = DepthOf(layout, 1)
        /\ DepthOf(layout, 1) <= Len(layout.slots)

\* C13's case: a three-slot table whose last folder is reached twice.
C13_Witness ==
    /\ op = "load"
    /\ WellFormed(layout)
    /\ Len(layout.slots) = 3
    /\ IsOk(result)
    /\ FolderDepth(result.val) = 3
    /\ Len(FoldersOf(result.val)) = 4

\* C14: on a buffer in which load meets a subfolder entry whose ID selects
\* the slot of the folder that holds it or of a folder above it, load never
\* returns a Folder: the recursion goes on until the interpreter's limit,
\* whatever it is, ends it, unless a table that lost its end ends it before.
C14_CyclicNeverReturns ==
    (op = "load" /\ Cyclic(layout, 1, {})) =>
        /\ ~IsOk(result)
        /\ layout.cut = 0 => result = Raise("RecursionError")

\* C14's case: a folder below the root whose entry selects the root's slot.
C14_Witness ==
    /\ op = "load"
    /\ Len(layout.slots) = 2
    /\ layout.cut = 0
    /\ layout.slots[1].subs = <<ROOT_ID + 1>>
    /\ layout.slots[2].subs = <<0>>
    /\ result = Raise("RecursionError")

(***************************************************************************)
(* Properties of the lookups by name.                                      *)
(***************************************************************************)
\* What a call of setFileByName(filename, .) that finds the ID fid must do:
\* store some d at fid, change nothing else, and make getFileByName return d
StoresAt(filename, fid) ==
    /\ fid < Len(rom.files)
    /\ last' = NoneVal
    /\ \E d \in FileData :
          /\ rom' = [rom EXCEPT !.files[fid + 1] = d]
          /\ getFileByName(rom', filename) = Ok(d)
    /\ Len(rom'.files) = Len(rom.files)
    /\ \A j \in 1..Len(rom.files) : j # fid + 1 => rom'.files[j] = rom.files[j]
    /\ rom'.sortedFileIds = rom.sortedFileIds
    /\ rom'.filenames = rom.filenames
    /\ hdr' = hdr

\* What a call that finds no ID must do: raise ValueError, change nothing
MissesWithValueError ==
    /\ last' = Raise("ValueError")
    /\ rom' = rom
    /\ hdr' = hdr

\* C15: setFileByName(filename, d) with idOf(filename) = fid stores d at
\* files[fid] and changes nothing else of the ROM, so that getFileByName
\* returns d afterwards; both lookups raise ValueError and change nothing
\* when idOf(filename) is None.
C15_SetFileFrame ==
    [][LET fid == idOf(rom.filenames, path')
       IN  /\ (pc = "ready" /\ op' = "setFileByName" /\ IsOk(fid))
                 => StoresAt(path', fid.val)
           /\ (pc = "ready" /\ op' \in {"setFileByName", "getFileByName"}
                 /\ IsNone(fid))
                 => MissesWithValueError]_vars

(***************************************************************************)
(* Properties of sortedFileIds.                                            *)
(***************************************************************************)
\* C16: once NintendoDSRom(data) is constructed, sortedFileIds and files both
\* have one entry for each whole 8-byte record of the FAT, and every file ID
\* occurs in sortedFileIds exactly once.
C16_SortedIdsPermutation ==
    pc = "ready" =>
        /\ Len(rom.files) = Len(rom.fat) \div 8
        /\ Len(rom.sortedFileIds) = Len(rom.files)
        /\ \A id \in 0..(Len(rom.files) - 1) :
              Cardinality({k \in 1..Len(rom.sortedFileIds) :
                              rom.sortedFileIds[k] = id}) = 1

=============================================================================
